---------------------------- MODULE Spec2Model ----------------------------
(***************************************************************************)
(* The order-placement and payment-confirmation flow of the storefront     *)
(* backend: the cart routes (server/routes/cart.js), the order routes, the *)
(* payment stub (server/routes/payments.js) and the admin product routes,  *)
(* all working on one SQLite database through better-sqlite3, whose calls  *)
(* are synchronous: a request handler runs to completion before the next   *)
(* request is served.  Two further specifications split the handlers of    *)
(* POST /orders and POST /payments/process between their reads and their   *)
(* writes (SpecInterleaved: several server processes on one database file) *)
(* and run the checkout page's handlePlaceOrder (SpecClient).              *)
(*                                                                         *)
(* Tables are sets of rows.  Money is an integer number of money units,    *)
(* one unit being 1/100 of a cent, so that 8% of any amount in whole       *)
(* cents is exact (the code computes on IEEE doubles and never rounds).    *)
(***************************************************************************)
EXTENDS Integers, Sequences, FiniteSets, TLC

VARIABLES products, cart_items, nextCartId, orders, order_items, res, served,
          inflight, client, addresses, nextAddressId

vars == <<products, cart_items, nextCartId, orders, order_items, res, served,
          inflight, client, addresses, nextAddressId>>

db == <<products, cart_items, nextCartId, orders, order_items>>

\* The addresses table and its AUTOINCREMENT sequence.
addressBook == <<addresses, nextAddressId>>

-----------------------------------------------------------------------------
(* Bounds of the model *)

\* Address rows ever inserted in one run.
MaxAddresses == 3

\* Requests the server handles in one run.
MaxRequests == 4

\* Orders that may be inserted.
MaxOrders == 2

\* Cart rows that may be inserted (cart_items.id is AUTOINCREMENT).
MaxCartId == 3

-----------------------------------------------------------------------------
(* Values *)

Users == {1, 2}

Products == {1, 2}

\* The product ids requests carry: those of the table and one it does not hold.
ProductIdInputs == Products \cup {9}

\* SQL NULL.
NULL == "NULL"

\* A request body is a record; a field that was not sent is not in its domain.
Has(body, field) == field \in DOMAIN body

CentUnits == 10 * 10

Cents(c) == c * CentUnits

Dollars(d) == Cents(d * 100)

\* Prices an administrator may set.
Prices == {Dollars(50)}

\* Stock quantities an administrator may set.
StockInputs == {2}

\* Quantities a cart request may carry.
QuantityInputs == {0, 2, 3}

\* Bodies of POST /cart/add and of PUT /cart/update/:id.
AddBodies ==
  [productId : Products, quantity : QuantityInputs]
    \cup [productId : ProductIdInputs \ Products] \cup {[quantity |-> 2]}

UpdateBodies == [quantity : {0, 3}] \cup {[notes |-> NULL]}

PaymentIds == {"pay_a"}

OrderNumbers == {"ORD-A", "ORD-B"}

\* Faulty variant: a seventh value is let through.
validStatusesWithRefunded ==
  {"pending", "confirmed", "processing", "shipped", "delivered", "cancelled",
   "refunded"}

validStatuses ==
  {"pending", "confirmed", "processing", "shipped", "delivered", "cancelled"}

StatusInputs == {"shipped", "delivered", "refunded"}

-----------------------------------------------------------------------------
(* The response of the request served last *)

\* id: the order a checkout request created or addressed, 0 otherwise.
Response(op, u, code, msg, id) ==
  [op |-> op, user |-> u, code |-> code, msg |-> msg, id |-> id]

\* The user field of the response to a request that passed requireAdmin.
Admin == 0

\* The handlers that may be between their reads and their writes, and the
\* value of one that is not.
Handlers == {1, 2}

Idle == [kind |-> "idle"]

-----------------------------------------------------------------------------
(* Initial database: the schema with a catalogue of two active products as *)
(* the product routes create them, no cart rows and no orders              *)

\* The products the shop starts with: a cheap one with stock for several
\* orders, a dear one (above the free-shipping threshold in pairs) with little.
InitialProducts ==
  [p \in Products |->
     IF p = 1
       THEN [price |-> Dollars(10), stock_quantity |-> 5, is_active |-> 1]
       ELSE [price |-> Dollars(60), stock_quantity |-> 2, is_active |-> 1]]

Init ==
  /\ products = InitialProducts
  /\ cart_items = {}
  /\ nextCartId = 1
  /\ orders = {}
  /\ order_items = {}
  /\ res = Response("none", 0, 0, "", 0)
  /\ served = 0
  /\ inflight = [h \in Handlers |-> Idle]
  /\ client = [pc |-> "idle", user |-> 0, paymentMethod |-> "", orderId |-> 0,
               error |-> "", navigated |-> 0, log |-> <<>>]
  /\ addresses = {}
  /\ nextAddressId = 1


-----------------------------------------------------------------------------
(* Cart routes *)

\* SELECT ... FROM products WHERE id = ? AND is_active = 1
\* Faulty variant of the product lookup: is_active is not looked at.
ActiveProductOrInactive(productId) == productId \in Products

\* SELECT id, stock_quantity FROM products WHERE id = ? AND is_active = 1
ActiveProduct(productId) ==
  productId \in Products /\ products[productId].is_active = 1

\* Faulty variant: the lookup of the existing item finds nothing.
ExistingItemsOverlooked(u, productId) == {}

\* SELECT id, quantity FROM cart_items WHERE user_id = ? AND product_id = ?
ExistingItems(u, productId) ==
  {ci \in cart_items : ci.user_id = u /\ ci.product_id = productId}

\* POST /cart/add
AddToCart(u, body) ==
  LET productId == body.productId
      quantity == IF Has(body, "quantity") THEN body.quantity ELSE 1
      reject(code, msg) ==
        /\ res' = Response("addToCart", u, code, msg, 0)
        /\ UNCHANGED db
  IN
  IF ~Has(body, "productId")
    THEN reject(400, "Product ID is required")
  ELSE IF ~ActiveProduct(productId)
    THEN reject(404, "Product not found")
  ELSE IF products[productId].stock_quantity < quantity
    THEN reject(400, "Insufficient stock")
  ELSE IF ExistingItems(u, productId) # {}
    THEN LET existingItem == CHOOSE ci \in ExistingItems(u, productId) : TRUE
             newQuantity == existingItem.quantity + quantity
         IN IF products[productId].stock_quantity < newQuantity
              THEN reject(400, "Insufficient stock")
              ELSE /\ cart_items' = (cart_items \ {existingItem}) \cup
                                      {[existingItem EXCEPT !.quantity = newQuantity]}
                   /\ res' = Response("addToCart", u, 200, "", 0)
                   /\ UNCHANGED <<products, nextCartId, orders, order_items>>
  ELSE /\ nextCartId <= MaxCartId
       /\ cart_items' = cart_items \cup
                          {[id |-> nextCartId, user_id |-> u,
                            product_id |-> productId, quantity |-> quantity]}
       /\ nextCartId' = nextCartId + 1
       /\ res' = Response("addToCart", u, 200, "", 0)
       /\ UNCHANGED <<products, orders, order_items>>

\* Faulty variant of the cart item lookup: the item of any user is found.
OwnCartItemOfAnyUser(u, id) == {ci \in cart_items : ci.id = id}

\* SELECT ci.*, p.stock_quantity FROM cart_items ci JOIN products p ...
\* WHERE ci.id = ? AND ci.user_id = ?
OwnCartItem(u, id) ==
  {ci \in cart_items : ci.id = id /\ ci.user_id = u}

\* PUT /cart/update/:id
UpdateCartItem(u, id, body) ==
  LET quantity == body.quantity
      reject(code, msg) ==
        /\ res' = Response("updateCartItem", u, code, msg, 0)
        /\ UNCHANGED db
  IN
  IF ~Has(body, "quantity") \/ quantity = 0 \/ quantity < 1
    THEN reject(400, "Valid quantity is required")
  ELSE IF OwnCartItem(u, id) = {}
    THEN reject(404, "Cart item not found")
  ELSE LET cartItem == CHOOSE ci \in OwnCartItem(u, id) : TRUE
       IN IF products[cartItem.product_id].stock_quantity < quantity
            THEN reject(400, "Insufficient stock")
            ELSE /\ cart_items' = {IF ci.id = id THEN [ci EXCEPT !.quantity = quantity]
                                                 ELSE ci : ci \in cart_items}
                 /\ res' = Response("updateCartItem", u, 200, "", 0)
                 /\ UNCHANGED <<products, nextCartId, orders, order_items>>

\* DELETE /cart/remove/:id
RemoveFromCart(u, id) ==
  LET deleted == {ci \in cart_items : ci.id = id /\ ci.user_id = u}
  IN /\ cart_items' = cart_items \ deleted
     /\ res' = IF deleted = {}
                 THEN Response("removeFromCart", u, 404, "Cart item not found", 0)
                 ELSE Response("removeFromCart", u, 200, "", 0)
     /\ UNCHANGED <<products, nextCartId, orders, order_items>>

\* DELETE /cart/clear
ClearCart(u) ==
  /\ cart_items' = {ci \in cart_items : ci.user_id # u}
  /\ res' = Response("clearCart", u, 200, "", 0)
  /\ UNCHANGED <<products, nextCartId, orders, order_items>>

-----------------------------------------------------------------------------
(* Order routes *)

TaxRatePercent == 8

FreeShippingOver == 100

FlatShipping == 10

\* Faulty variant: the cart query without its p.is_active = 1 condition.
CartReadAnyProduct(u) ==
  {[id |-> ci.id, product_id |-> ci.product_id, quantity |-> ci.quantity,
    price |-> products[ci.product_id].price,
    stock_quantity |-> products[ci.product_id].stock_quantity] :
     ci \in {c \in cart_items : c.user_id = u}}

\* The cart query of POST /orders: the user's cart rows joined with their
\* products, rows of products that are not active left out.
CartRead(u) ==
  {[id |-> ci.id, product_id |-> ci.product_id, quantity |-> ci.quantity,
    price |-> products[ci.product_id].price,
    stock_quantity |-> products[ci.product_id].stock_quantity] :
     ci \in {c \in cart_items : c.user_id = u /\ products[c.product_id].is_active = 1}}

\* The rows of a query result in the order the loops visit them (rowid order).
RECURSIVE RowSeq(_)
RowSeq(rows) ==
  IF rows = {} THEN <<>>
  ELSE LET first == CHOOSE r \in rows : \A o \in rows : r.id <= o.id
       IN <<first>> \o RowSeq(rows \ {first})

\* Faulty variant: the empty-cart test is missing.
CartIsEmptyUnchecked(cartItems) == FALSE

\* cartItems.length === 0
CartIsEmpty(cartItems) == Cardinality(cartItems) = 0

\* Faulty variant: the order is refused only when every line lacks stock.
InsufficientStockOnEveryLine(cartItems) ==
  \A item \in cartItems : item.stock_quantity < item.quantity

\* Faulty variant: the stock check is left out.
InsufficientStockUnchecked(cartItems) == FALSE

\* item.stock_quantity < item.quantity for some item
InsufficientStock(cartItems) ==
  \E item \in cartItems : item.stock_quantity < item.quantity

\* cartItems.reduce((sum, item) => sum + (item.price * item.quantity), 0)
RECURSIVE SumLines(_)
SumLines(items) ==
  IF items = <<>> THEN 0
  ELSE Head(items).price * Head(items).quantity + SumLines(Tail(items))

Subtotal(cartItems) == SumLines(RowSeq(cartItems))

\* Faulty variant: a factor of 0.8 instead of 0.08.
TaxAmountTenfold(subtotal) == (subtotal * TaxRatePercent) \div 10

\* subtotal * 0.08
TaxAmount(subtotal) == (subtotal * TaxRatePercent) \div 100

\* Faulty variant: free shipping from 100 on (>= instead of >).
ShippingAmountFromThreshold(subtotal) ==
  IF subtotal >= Dollars(FreeShippingOver) THEN 0 ELSE Dollars(FlatShipping)

\* subtotal > 100 ? 0 : 10
ShippingAmount(subtotal) ==
  IF subtotal > Dollars(FreeShippingOver) THEN 0 ELSE Dollars(FlatShipping)

TotalAmount(subtotal) == subtotal + TaxAmount(subtotal) + ShippingAmount(subtotal)

\* Faulty variant: insertOrder writes the order as already paid.
NewOrderPaid(u, body, orderNumber, cartItems) ==
  [id |-> Cardinality(orders) + 1,
   user_id |-> u,
   order_number |-> orderNumber,
   status |-> "confirmed",
   subtotal |-> Subtotal(cartItems),
   tax_amount |-> TaxAmount(Subtotal(cartItems)),
   shipping_amount |-> ShippingAmount(Subtotal(cartItems)),
   total_amount |-> TotalAmount(Subtotal(cartItems)),
   payment_status |-> "completed",
   payment_method |-> IF Has(body, "paymentMethod") THEN body.paymentMethod
                                                    ELSE "pending",
   payment_id |-> NULL,
   shipped_at |-> NULL,
   delivered_at |-> NULL]

\* Faulty variant: orders.order_number without its UNIQUE constraint.
OrderNumberNeverTaken(orderNumber) == FALSE

\* order_number TEXT UNIQUE NOT NULL: an INSERT of a number some order
\* carries throws.
OrderNumberTaken(orderNumber) == \E o \in orders : o.order_number = orderNumber

\* The row insertOrder writes.
NewOrder(u, body, orderNumber, cartItems) ==
  [id |-> Cardinality(orders) + 1,
   user_id |-> u,
   order_number |-> orderNumber,
   status |-> "pending",
   subtotal |-> Subtotal(cartItems),
   tax_amount |-> TaxAmount(Subtotal(cartItems)),
   shipping_amount |-> ShippingAmount(Subtotal(cartItems)),
   total_amount |-> TotalAmount(Subtotal(cartItems)),
   payment_status |-> "pending",
   payment_method |-> IF Has(body, "paymentMethod") THEN body.paymentMethod
                                                    ELSE "pending",
   payment_id |-> NULL,
   shipped_at |-> NULL,
   delivered_at |-> NULL]

\* Faulty variant of insertOrderItem: every item is written with quantity 1.
NewOrderItemOfOne(orderId, items, i) ==
  [id |-> Cardinality(order_items) + i,
   order_id |-> orderId,
   product_id |-> items[i].product_id,
   quantity |-> 1,
   unit_price |-> items[i].price,
   total_price |-> items[i].price]

\* The row insertOrderItem writes for the i-th cart line.
NewOrderItem(orderId, items, i) ==
  [id |-> Cardinality(order_items) + i,
   order_id |-> orderId,
   product_id |-> items[i].product_id,
   quantity |-> items[i].quantity,
   unit_price |-> items[i].price,
   total_price |-> items[i].price * items[i].quantity]

\* Variant: updateStock guarded, UPDATE ... WHERE id = ? AND stock_quantity >= ?
RECURSIVE StockAfterGuarded(_, _)
StockAfterGuarded(items, n) ==
  IF n = 0 THEN products
  ELSE LET before == StockAfterGuarded(items, n - 1)
           pid == items[n].product_id
       IN IF before[pid].stock_quantity >= items[n].quantity
            THEN [before EXCEPT ![pid].stock_quantity = @ - items[n].quantity]
            ELSE before

\* Faulty variant: updateStock is never run.
StockAfterNoUpdate(items, n) == products

\* The products table after updateStock has run for the first n cart lines.
RECURSIVE StockAfter(_, _)
StockAfter(items, n) ==
  IF n = 0 THEN products
  ELSE LET before == StockAfter(items, n - 1)
           pid == items[n].product_id
       IN [before EXCEPT ![pid].stock_quantity = @ - items[n].quantity]

\* Faulty variant: DELETE FROM cart_items without its WHERE clause.
CartClearedForAll(u) == {}

\* DELETE FROM cart_items WHERE user_id = ?
CartCleared(u) == {ci \in cart_items : ci.user_id # u}

\* The statements POST /orders runs after its checks, in order: insertOrder,
\* then insertOrderItem and updateStock for each cart line, then clearCart.
WriteCount(items) == 2 * Len(items) + 2

\* The database once the first `done` of these statements have run.  Each
\* statement commits on its own: the handler opens no transaction.
OrderWrites(u, order, items, done) ==
  /\ orders' = IF done >= 1 THEN orders \cup {order} ELSE orders
  /\ order_items' = order_items \cup
                      {NewOrderItem(order.id, items, i) :
                         i \in {j \in 1..Len(items) : 2 * j <= done}}
  /\ products' = StockAfter(items, Cardinality({j \in 1..Len(items) : 2 * j + 1 <= done}))
  /\ cart_items' = IF done >= WriteCount(items) THEN CartCleared(u) ELSE cart_items
  /\ UNCHANGED nextCartId

\* POST /orders
CreateOrder(u, body, orderNumber) ==
  LET cartItems == CartRead(u)
      items == RowSeq(cartItems)
      order == NewOrder(u, body, orderNumber, cartItems)
      reject(code, msg) ==
        /\ res' = Response("createOrder", u, code, msg, 0)
        /\ UNCHANGED db
  IN
  IF CartIsEmpty(cartItems)
    THEN reject(400, "Cart is empty")
  ELSE IF InsufficientStock(cartItems)
    THEN reject(400, "Insufficient stock")
  ELSE IF OrderNumberTaken(orderNumber)
    THEN \* UNIQUE(order_number): insertOrder throws, nothing was written yet
         reject(500, "Failed to create order")
  ELSE /\ Cardinality(orders) < MaxOrders
       /\ OrderWrites(u, order, items, WriteCount(items))
       /\ res' = Response("createOrder", u, 201, "", order.id)

\* POST /orders when the database fails a statement (disk full, I/O error,
\* SQLITE_BUSY) after `done` statements have run: the catch block answers 500
\* and undoes nothing.
CreateOrderWriteFails(u, body, orderNumber, done) ==
  LET cartItems == CartRead(u)
      items == RowSeq(cartItems)
      order == NewOrder(u, body, orderNumber, cartItems)
  IN
  /\ ~CartIsEmpty(cartItems)
  /\ ~InsufficientStock(cartItems)
  /\ ~OrderNumberTaken(orderNumber)
  /\ Cardinality(orders) < MaxOrders
  /\ done \in 0..(WriteCount(items) - 1)
  /\ OrderWrites(u, order, items, done)
  /\ res' = Response("createOrder", u, 500, "Failed to create order", 0)

\* Faulty variant of the UPDATE: both timestamps are written whatever the status.
StatusUpdatedStampingBoth(o, status) ==
  [o EXCEPT !.status = status, !.shipped_at = "set", !.delivered_at = "set"]

\* UPDATE orders SET status = ?, shipped_at = CASE ..., delivered_at = CASE ...
\* WHERE id = ?; "set" stands for CURRENT_TIMESTAMP.
StatusUpdated(o, status) ==
  [o EXCEPT !.status = status,
            !.shipped_at = IF status = "shipped" THEN "set" ELSE @,
            !.delivered_at = IF status = "delivered" THEN "set" ELSE @]

\* PUT /orders/:id/status (admin)
UpdateOrderStatus(id, body) ==
  LET status == body.status
      found == {o \in orders : o.id = id}
  IN
  IF ~Has(body, "status") \/ status \notin validStatuses
    THEN /\ res' = Response("updateOrderStatus", Admin, 400, "Invalid status", 0)
         /\ UNCHANGED db
  ELSE /\ orders' = {IF o.id = id THEN StatusUpdated(o, status) ELSE o : o \in orders}
       /\ res' = IF found = {}
                   THEN Response("updateOrderStatus", Admin, 404, "Order not found", 0)
                   ELSE Response("updateOrderStatus", Admin, 200, "", 0)
       /\ UNCHANGED <<products, cart_items, nextCartId, order_items>>

-----------------------------------------------------------------------------
(* Payment stub *)

\* Faulty variant: the lookup without its user_id = ? condition.
PendingOrderAnyUser(u, orderId) ==
  {o \in orders : o.id = orderId /\ o.payment_status = "pending"}

\* Faulty variant: the lookup without its payment_status = 'pending' condition.
PendingOrderAnyPayment(u, orderId) ==
  {o \in orders : o.id = orderId /\ o.user_id = u}

\* SELECT * FROM orders WHERE id = ? AND user_id = ? AND payment_status = 'pending'
PendingOrder(u, orderId) ==
  {o \in orders : o.id = orderId /\ o.user_id = u /\ o.payment_status = "pending"}

\* Faulty variant: the UPDATE of the success branch does not set payment_method.
PaymentCompletedKeepingMethod(o, body, paymentId) ==
  [o EXCEPT !.payment_status = "completed",
            !.payment_id = paymentId,
            !.status = "confirmed"]

\* Faulty variant: the UPDATE of the success branch does not set status.
PaymentCompletedStillPending(o, body, paymentId) ==
  [o EXCEPT !.payment_status = "completed",
            !.payment_method = body.paymentMethod,
            !.payment_id = paymentId]

\* UPDATE orders SET payment_status = 'completed', payment_method = ?,
\* payment_id = ?, status = 'confirmed' WHERE id = ?
PaymentCompleted(o, body, paymentId) ==
  [o EXCEPT !.payment_status = "completed",
            !.payment_method = body.paymentMethod,
            !.payment_id = paymentId,
            !.status = "confirmed"]

\* Variant: the failure UPDATE guarded, ... WHERE id = ? AND payment_status =
\* 'pending'
PaymentFailedIfPending(o) ==
  IF o.payment_status = "pending" THEN [o EXCEPT !.payment_status = "failed"]
                                  ELSE o

\* Faulty variant: the failure branch answers without its UPDATE.
PaymentFailedUnrecorded(o) == o

\* Faulty variant of the failure branch: the order's total is taken back as well.
PaymentFailedRefunding(o) ==
  [o EXCEPT !.payment_status = "failed", !.total_amount = 0]

\* UPDATE orders SET payment_status = 'failed' WHERE id = ?
PaymentFailed(o) == [o EXCEPT !.payment_status = "failed"]

\* POST /payments/process; paymentSuccess is the random draw, paymentId the
\* generated payment id.
ProcessPayment(u, body, paymentSuccess, paymentId) ==
  LET orderId == body.orderId
      reject(code, msg) ==
        /\ res' = Response("processPayment", u, code, msg, 0)
        /\ UNCHANGED db
  IN
  IF ~Has(body, "orderId") \/ orderId = 0 \/ ~Has(body, "paymentMethod")
    THEN reject(400, "Order ID and payment method are required")
  ELSE IF PendingOrder(u, orderId) = {}
    THEN /\ res' = Response("processPayment", u, 404,
                             "Order not found or already processed", orderId)
         /\ UNCHANGED db
  ELSE /\ orders' =
            {IF o.id = orderId
               THEN IF paymentSuccess
                      THEN PaymentCompleted(o, body, paymentId)
                      ELSE PaymentFailed(o)
               ELSE o : o \in orders}
       /\ res' = IF paymentSuccess
                   THEN Response("processPayment", u, 200, "", orderId)
                   ELSE Response("processPayment", u, 400, "Payment processing failed", orderId)
       /\ UNCHANGED <<products, cart_items, nextCartId, order_items>>

-----------------------------------------------------------------------------
(* Product routes (admin) *)

\* Faulty variant of PUT /products/:id: the new price is also written to the product's order items.
UpdateProductRepricing(id, body) ==
  IF id \notin Products
    THEN /\ res' = Response("updateProduct", Admin, 404, "Product not found", 0)
         /\ UNCHANGED db
    ELSE /\ products' =
              [products EXCEPT
                 ![id] = [price |-> body.price,
                          stock_quantity |-> IF Has(body, "stockQuantity")
                                               THEN body.stockQuantity ELSE 0,
                          is_active |-> IF Has(body, "isActive")
                                          THEN body.isActive ELSE 1]]
         /\ order_items' =
              {IF oi.product_id = id
                 THEN [oi EXCEPT !.unit_price = body.price,
                                 !.total_price = body.price * oi.quantity]
                 ELSE oi : oi \in order_items}
         /\ res' = Response("updateProduct", Admin, 200, "", 0)
         /\ UNCHANGED <<cart_items, nextCartId, orders>>

\* PUT /products/:id
UpdateProduct(id, body) ==
  IF id \notin Products
    THEN /\ res' = Response("updateProduct", Admin, 404, "Product not found", 0)
         /\ UNCHANGED db
    ELSE /\ products' =
              [products EXCEPT
                 ![id] = [price |-> body.price,
                          stock_quantity |-> IF Has(body, "stockQuantity")
                                               THEN body.stockQuantity ELSE 0,
                          is_active |-> IF Has(body, "isActive")
                                          THEN body.isActive ELSE 1]]
         /\ res' = Response("updateProduct", Admin, 200, "", 0)
         /\ UNCHANGED <<cart_items, nextCartId, orders, order_items>>

\* DELETE /products/:id (soft delete)
DeleteProduct(id) ==
  IF id \notin Products
    THEN /\ res' = Response("deleteProduct", Admin, 404, "Product not found", 0)
         /\ UNCHANGED db
    ELSE /\ products' = [products EXCEPT ![id].is_active = 0]
         /\ res' = Response("deleteProduct", Admin, 200, "", 0)
         /\ UNCHANGED <<cart_items, nextCartId, orders, order_items>>

-----------------------------------------------------------------------------
(* Address routes.  A row of addresses is modelled by its id, user_id, type
   and is_default; firstName stands for the required fields of a body. *)

AddressTypes == {"shipping", "billing"}

\* isDefault of a body, false when it names none.
IsDefault(body) == Has(body, "isDefault") /\ body.isDefault

\* Faulty variant of unsetDefaults: no row is changed.
DefaultsKept(u, type, id) == addresses

\* UPDATE addresses SET is_default = 0 WHERE user_id = ? AND type = ? AND
\* id != ?  (POST /addresses has no id != ? clause: id is then no row's id.)
DefaultsUnset(u, type, id) ==
  {IF a.user_id = u /\ a.type = type /\ a.id # id
     THEN [a EXCEPT !.is_default = 0]
     ELSE a : a \in addresses}

\* POST /addresses
AddAddress(u, body) ==
  LET type == IF Has(body, "type") THEN body.type ELSE "shipping"
      rows == IF IsDefault(body) THEN DefaultsUnset(u, type, 0) ELSE addresses
  IN
  IF ~Has(body, "firstName")
    THEN /\ res' = Response("addAddress", u, 400,
                             "Required address fields are missing", 0)
         /\ UNCHANGED addressBook
  ELSE /\ nextAddressId <= MaxAddresses
       /\ addresses' = rows \cup
                         {[id |-> nextAddressId, user_id |-> u, type |-> type,
                           is_default |-> IF IsDefault(body) THEN 1 ELSE 0]}
       /\ nextAddressId' = nextAddressId + 1
       /\ res' = Response("addAddress", u, 201, "", nextAddressId)

\* SELECT id, type FROM addresses WHERE id = ? AND user_id = ?
OwnAddress(u, id) == {a \in addresses : a.id = id /\ a.user_id = u}

\* PUT /addresses/:id; binding a missing required field makes updateAddress
\* throw, after unsetDefaults has run.
UpdateAddress(u, id, body) ==
  IF OwnAddress(u, id) = {}
    THEN /\ res' = Response("updateAddress", u, 404, "Address not found", 0)
         /\ UNCHANGED addressBook
  ELSE LET existingAddress == CHOOSE a \in OwnAddress(u, id) : TRUE
           type == IF Has(body, "type") THEN body.type ELSE existingAddress.type
           rows == IF IsDefault(body) THEN DefaultsUnset(u, type, id) ELSE addresses
       IN /\ UNCHANGED nextAddressId
          /\ IF ~Has(body, "firstName")
               THEN /\ addresses' = rows
                    /\ res' = Response("updateAddress", u, 500,
                                        "Failed to update address", 0)
               ELSE /\ addresses' =
                         {IF a.id = id /\ a.user_id = u
                            THEN [a EXCEPT !.type = type,
                                           !.is_default = IF IsDefault(body) THEN 1 ELSE 0]
                            ELSE a : a \in rows}
                    /\ res' = Response("updateAddress", u, 200, "", 0)

\* DELETE /addresses/:id
DeleteAddress(u, id) ==
  LET deleted == {a \in addresses : a.id = id /\ a.user_id = u}
  IN /\ addresses' = addresses \ deleted
     /\ UNCHANGED nextAddressId
     /\ res' = IF deleted = {}
                 THEN Response("deleteAddress", u, 404, "Address not found", 0)
                 ELSE Response("deleteAddress", u, 200, "", 0)

-----------------------------------------------------------------------------
(* Requests *)

OrderBodies == {[paymentMethod |-> "credit_card"]}

\* The ids requests carry: those of the rows inserted so far and one id that
\* no row has.
CartItemIds == 1..nextCartId

OrderIds == 1..(Cardinality(orders) + 1)

PaymentBodies ==
  [orderId : {0} \cup OrderIds, paymentMethod : {"paypal"}] \cup {[orderId |-> 1]}

StatusBodies == [status : StatusInputs]

ProductBodies ==
  [price : Prices, stockQuantity : StockInputs, isActive : {0, 1}]
    \cup [price : Prices]

\* The server takes up a request.
Accept ==
  /\ served < MaxRequests
  /\ served' = served + 1

\* The server handles one request at a time, each to completion: no handler
\* is left between its reads and its writes; the request is not one of the
\* checkout page.
Serve ==
  /\ Accept
  /\ UNCHANGED <<inflight, client, addressBook>>

Next ==
  \/ \E u \in Users, body \in AddBodies : Serve /\ AddToCart(u, body)
  \/ \E u \in Users, id \in CartItemIds, body \in UpdateBodies :
       Serve /\ UpdateCartItem(u, id, body)
  \/ \E u \in Users, id \in CartItemIds : Serve /\ RemoveFromCart(u, id)
  \/ \E u \in Users : Serve /\ ClearCart(u)
  \/ \E u \in Users, body \in OrderBodies, orderNumber \in OrderNumbers :
       Serve /\ CreateOrder(u, body, orderNumber)
  \/ \E id \in OrderIds, body \in StatusBodies :
       Serve /\ UpdateOrderStatus(id, body)
  \/ \E u \in Users, body \in PaymentBodies, paymentSuccess \in BOOLEAN,
        paymentId \in PaymentIds :
       Serve /\ ProcessPayment(u, body, paymentSuccess, paymentId)
  \/ \E id \in ProductIdInputs, body \in ProductBodies :
       Serve /\ UpdateProduct(id, body)
  \/ \E id \in ProductIdInputs : Serve /\ DeleteProduct(id)

Spec == Init /\ [][Next]_vars

\* The same server on a database whose statements may fail.
WriteFailure ==
  \E u \in Users, body \in OrderBodies, orderNumber \in OrderNumbers,
     done \in 0..(2 * MaxCartId + 1) :
    Serve /\ CreateOrderWriteFails(u, body, orderNumber, done)

NextFaulty == Next \/ WriteFailure

SpecFaulty == Init /\ [][NextFaulty]_vars

\* POST /cart/add bodies with a quantity below zero, which the route does
\* not refuse.
NegativeAddBodies == [productId : {1}, quantity : {-1}]

\* The shop while no admin changes a product.
NextNoProductUpdate ==
  \/ \E u \in Users, body \in AddBodies \cup NegativeAddBodies :
       Serve /\ AddToCart(u, body)
  \/ \E u \in Users, id \in CartItemIds, body \in UpdateBodies :
       Serve /\ UpdateCartItem(u, id, body)
  \/ \E u \in Users, id \in CartItemIds : Serve /\ RemoveFromCart(u, id)
  \/ \E u \in Users : Serve /\ ClearCart(u)
  \/ \E u \in Users, body \in OrderBodies, orderNumber \in OrderNumbers :
       Serve /\ CreateOrder(u, body, orderNumber)
  \/ \E id \in OrderIds, body \in StatusBodies :
       Serve /\ UpdateOrderStatus(id, body)
  \/ \E u \in Users, body \in PaymentBodies, paymentSuccess \in BOOLEAN,
        paymentId \in PaymentIds :
       Serve /\ ProcessPayment(u, body, paymentSuccess, paymentId)

SpecNoProductUpdate == Init /\ [][NextNoProductUpdate]_vars

\* The shop while no admin changes an order's status.
NextNoStatusUpdate ==
  \/ \E u \in Users, body \in AddBodies : Serve /\ AddToCart(u, body)
  \/ \E u \in Users, id \in CartItemIds, body \in UpdateBodies :
       Serve /\ UpdateCartItem(u, id, body)
  \/ \E u \in Users, id \in CartItemIds : Serve /\ RemoveFromCart(u, id)
  \/ \E u \in Users : Serve /\ ClearCart(u)
  \/ \E u \in Users, body \in OrderBodies, orderNumber \in OrderNumbers :
       Serve /\ CreateOrder(u, body, orderNumber)
  \/ \E u \in Users, body \in PaymentBodies, paymentSuccess \in BOOLEAN,
        paymentId \in PaymentIds :
       Serve /\ ProcessPayment(u, body, paymentSuccess, paymentId)
  \/ \E id \in ProductIdInputs, body \in ProductBodies :
       Serve /\ UpdateProduct(id, body)
  \/ \E id \in ProductIdInputs : Serve /\ DeleteProduct(id)

SpecNoStatusUpdate == Init /\ [][NextNoStatusUpdate]_vars

\* Bodies of POST /addresses and PUT /addresses/:id.
AddressBodies ==
  [type : AddressTypes, isDefault : BOOLEAN, firstName : {"A"}]
    \cup [isDefault : BOOLEAN, firstName : {"A"}]
    \cup [type : AddressTypes, firstName : {"A"}]
    \cup [type : AddressTypes, isDefault : {TRUE}]

\* An address row's id, or one that no row has.
AddressIds == 1..nextAddressId

\* A request to the address routes.
AddressRequest ==
  /\ Accept
  /\ UNCHANGED <<db, inflight, client>>

NextAddresses ==
  \/ \E u \in Users, body \in AddressBodies : AddressRequest /\ AddAddress(u, body)
  \/ \E u \in Users, id \in AddressIds, body \in AddressBodies :
       AddressRequest /\ UpdateAddress(u, id, body)
  \/ \E u \in Users, id \in AddressIds : AddressRequest /\ DeleteAddress(u, id)

SpecAddresses == Init /\ [][NextAddresses]_vars

-----------------------------------------------------------------------------
(* Handlers of several server processes on one database file: each statement *)
(* is synchronous and commits on its own, and the statements of two handlers *)
(* interleave between a handler's reads and its writes                       *)

\* POST /orders up to the generation of the order number: the cart query, the
\* empty-cart test, the stock check and the totals, on what the query read.
CheckOrder(h, u, body, orderNumber) ==
  LET cartItems == CartRead(u)
  IN
  /\ inflight[h] = Idle
  /\ Accept
  /\ UNCHANGED <<db, client, addressBook>>
  /\ IF CartIsEmpty(cartItems)
       THEN /\ res' = Response("createOrder", u, 400, "Cart is empty", 0)
            /\ UNCHANGED inflight
     ELSE IF InsufficientStock(cartItems)
       THEN /\ res' = Response("createOrder", u, 400, "Insufficient stock", 0)
            /\ UNCHANGED inflight
     ELSE /\ inflight' = [inflight EXCEPT
                             ![h] = [kind |-> "createOrder", user |-> u,
                                     body |-> body, orderNumber |-> orderNumber,
                                     cartItems |-> cartItems]]
          /\ UNCHANGED res

\* POST /orders from insertOrder on: the writes, from the rows and totals the
\* handler read before.
WriteOrder(h) ==
  LET r == inflight[h]
      items == RowSeq(r.cartItems)
      order == NewOrder(r.user, r.body, r.orderNumber, r.cartItems)
  IN
  /\ r.kind = "createOrder"
  /\ inflight' = [inflight EXCEPT ![h] = Idle]
  /\ UNCHANGED <<served, client, addressBook>>
  /\ IF OrderNumberTaken(r.orderNumber)
       THEN /\ res' = Response("createOrder", r.user, 500, "Failed to create order", 0)
            /\ UNCHANGED db
       ELSE /\ Cardinality(orders) < MaxOrders
            /\ OrderWrites(r.user, order, items, WriteCount(items))
            /\ res' = Response("createOrder", r.user, 201, "", order.id)

\* POST /payments/process up to the lookup of the pending order.
LookupPayment(h, u, body) ==
  /\ inflight[h] = Idle
  /\ Accept
  /\ UNCHANGED <<db, client, addressBook>>
  /\ IF ~Has(body, "orderId") \/ body.orderId = 0 \/ ~Has(body, "paymentMethod")
       THEN /\ res' = Response("processPayment", u, 400,
                                "Order ID and payment method are required", 0)
            /\ UNCHANGED inflight
     ELSE IF PendingOrder(u, body.orderId) = {}
       THEN /\ res' = Response("processPayment", u, 404,
                                "Order not found or already processed", body.orderId)
            /\ UNCHANGED inflight
     ELSE /\ inflight' = [inflight EXCEPT
                             ![h] = [kind |-> "processPayment", user |-> u,
                                     body |-> body]]
          /\ UNCHANGED res

\* POST /payments/process from the draw on: UPDATE orders ... WHERE id = ?
RecordPayment(h, paymentSuccess, paymentId) ==
  LET r == inflight[h]
      orderId == r.body.orderId
  IN
  /\ r.kind = "processPayment"
  /\ inflight' = [inflight EXCEPT ![h] = Idle]
  /\ orders' =
       {IF o.id = orderId
          THEN IF paymentSuccess
                 THEN PaymentCompleted(o, r.body, paymentId)
                 ELSE PaymentFailed(o)
          ELSE o : o \in orders}
  /\ res' = IF paymentSuccess
              THEN Response("processPayment", r.user, 200, "", orderId)
              ELSE Response("processPayment", r.user, 400,
                            "Payment processing failed", orderId)
  /\ UNCHANGED <<products, cart_items, nextCartId, order_items, served, client, addressBook>>

NextInterleaved ==
  \/ \E u \in Users, body \in AddBodies : Serve /\ AddToCart(u, body)
  \/ \E h \in Handlers, u \in Users, body \in OrderBodies,
        orderNumber \in OrderNumbers :
       CheckOrder(h, u, body, orderNumber)
  \/ \E h \in Handlers : WriteOrder(h)
  \/ \E h \in Handlers, u \in Users, body \in PaymentBodies :
       LookupPayment(h, u, body)
  \/ \E h \in Handlers, paymentSuccess \in BOOLEAN, paymentId \in PaymentIds :
       RecordPayment(h, paymentSuccess, paymentId)

SpecInterleaved == Init /\ [][NextInterleaved]_vars

-----------------------------------------------------------------------------
(* The checkout page: handlePlaceOrder, one run at a time (the button is
   disabled while a run is loading).  Each request of the page is handled by
   the server to completion; requests of other pages come in between.  The
   log lists what the running handlePlaceOrder has done so far. *)

\* What the user has selected on the page when pressing 'Place Order'.
Selections ==
  [shippingAddress : {1}, paymentMethod : {"credit_card"}]
    \cup {[paymentMethod |-> "credit_card"], [shippingAddress |-> 1]}

\* An entry of the log: the request sent (or the navigation), the status of
\* its response, the order id sent or returned.
Did(req, code, id) == [req |-> req, code |-> code, id |-> id]

\* The page's requests are taken up like any other, one of them still when
\* the other pages have had theirs; no handler is left open.
ClientRequest ==
  /\ served < MaxRequests + 1
  /\ served' = served + 1
  /\ UNCHANGED <<inflight, addressBook>>

\* 'Place Order' is pressed: the selections are validated.
PlaceOrder(u, selection) ==
  /\ client.pc = "idle"
  /\ client' =
       IF ~Has(selection, "shippingAddress")
         THEN [client EXCEPT !.user = u, !.log = <<>>,
                             !.error = "Please select shipping and billing addresses"]
       ELSE IF ~Has(selection, "paymentMethod")
         THEN [client EXCEPT !.user = u, !.log = <<>>,
                             !.error = "Please select a payment method"]
       ELSE [client EXCEPT !.pc = "createOrder", !.user = u, !.log = <<>>,
                           !.error = "", !.orderId = 0,
                           !.paymentMethod = selection.paymentMethod]
  /\ UNCHANGED <<db, res, served, inflight, addressBook>>

\* fetch POST /api/orders; a response that is not ok throws.
ClientCreateOrder(orderNumber) ==
  /\ client.pc = "createOrder"
  /\ ClientRequest
  /\ CreateOrder(client.user, [paymentMethod |-> client.paymentMethod], orderNumber)
  /\ client' =
       IF res'.code = 201
         THEN [client EXCEPT !.pc = "processPayment", !.orderId = res'.id,
                             !.log = Append(@, Did("createOrder", 201, res'.id))]
         ELSE [client EXCEPT !.pc = "idle", !.error = res'.msg,
                             !.log = Append(@, Did("createOrder", res'.code, 0))]

\* Faulty variant of the branch on paymentData.success: the cart is cleared whatever the payment response says.
AfterPaymentAlwaysClears(code) == "clearCart"

\* if (paymentData.success): only the 200 response carries success: true.
AfterPayment(code) == IF code = 200 THEN "clearCart" ELSE "idle"

\* fetch POST /api/payments/process with the order id of orderData.
ClientProcessPayment(paymentSuccess, paymentId) ==
  /\ client.pc = "processPayment"
  /\ ClientRequest
  /\ ProcessPayment(client.user,
                    [orderId |-> client.orderId,
                     paymentMethod |-> client.paymentMethod],
                    paymentSuccess, paymentId)
  /\ client' =
       [client EXCEPT !.pc = AfterPayment(res'.code),
                      !.error = IF res'.code = 200 THEN @
                                ELSE IF res'.msg # "" THEN res'.msg
                                ELSE "Payment failed",
                      !.log = Append(@, Did("processPayment", res'.code,
                                            client.orderId))]

\* await clearCart(): DELETE /api/cart/clear, then the cart is fetched again.
ClientClearCart ==
  /\ client.pc = "clearCart"
  /\ ClientRequest
  /\ ClearCart(client.user)
  /\ client' = [client EXCEPT !.pc = "navigate",
                              !.log = Append(@, Did("clearCart", res'.code, 0))]

\* navigate(`/orders/${orderData.orderId}`)
ClientNavigate ==
  /\ client.pc = "navigate"
  /\ client' = [client EXCEPT !.pc = "idle", !.navigated = client.orderId,
                              !.log = Append(@, Did("navigate", 0, client.orderId))]
  /\ UNCHANGED <<db, res, served, inflight, addressBook>>

NextClient ==
  \/ \E u \in Users, body \in AddBodies : Serve /\ AddToCart(u, body)
  \/ \E u \in Users, body \in PaymentBodies, paymentSuccess \in BOOLEAN,
        paymentId \in PaymentIds :
       Serve /\ ProcessPayment(u, body, paymentSuccess, paymentId)
  \/ \E u \in Users, selection \in Selections : PlaceOrder(u, selection)
  \/ \E orderNumber \in OrderNumbers : ClientCreateOrder(orderNumber)
  \/ \E paymentSuccess \in BOOLEAN, paymentId \in PaymentIds :
       ClientProcessPayment(paymentSuccess, paymentId)
  \/ ClientClearCart
  \/ ClientNavigate

SpecClient == Init /\ [][NextClient]_vars

-----------------------------------------------------------------------------
(* Vocabulary of the properties *)

\* The cart rows of user u in a cart table, whatever their products' state.
CartIn(rows, u) == {ci \in rows : ci.user_id = u}

CartOf(u) == CartIn(cart_items, u)

\* The rows of u's cart whose product is active.
ActiveLines(u) == {ci \in CartOf(u) : products[ci.product_id].is_active = 1}

InactiveLines(u) == CartOf(u) \ ActiveLines(u)

ShortOfStock(ci) == ci.quantity > products[ci.product_id].stock_quantity

\* Sum of unit price x quantity over cart rows, at the current prices.
RECURSIVE CartValue(_)
CartValue(rows) ==
  IF rows = {} THEN 0
  ELSE LET r == CHOOSE x \in rows : TRUE
       IN products[r.product_id].price * r.quantity + CartValue(rows \ {r})

\* What an order item snapshots of a cart row.
Snapshot(ci) ==
  [product_id |-> ci.product_id, quantity |-> ci.quantity,
   unit_price |-> products[ci.product_id].price,
   total_price |-> products[ci.product_id].price * ci.quantity]

ItemContent(oi) ==
  [product_id |-> oi.product_id, quantity |-> oi.quantity,
   unit_price |-> oi.unit_price, total_price |-> oi.total_price]

ItemsOf(items, orderId) == {oi \in items : oi.order_id = orderId}

Money(o) == <<o.subtotal, o.tax_amount, o.shipping_amount, o.total_amount>>

\* The quantity of product p in a set of cart rows.
RECURSIVE QuantityIn(_, _)
QuantityIn(rows, p) ==
  IF rows = {} THEN 0
  ELSE LET r == CHOOSE x \in rows : TRUE
       IN (IF r.product_id = p THEN r.quantity ELSE 0) + QuantityIn(rows \ {r}, p)

\* This step is POST /orders by user u: the response it leaves says so.
CreateOrderStep(u) ==
  /\ res'.op = "createOrder"
  /\ res'.user = u

\* This step is POST /orders by user u, and it answered 201 Created.
OrderCreatedStep(u) == CreateOrderStep(u) /\ res'.code = 201

\* The totals of order o follow from its subtotal.
TotalsFromSubtotal(o) ==
  /\ o.tax_amount * 100 = o.subtotal * 8
  /\ o.shipping_amount = IF o.subtotal > Dollars(100) THEN 0 ELSE Dollars(10)
  /\ o.total_amount = o.subtotal + o.tax_amount + o.shipping_amount

-----------------------------------------------------------------------------
(* Order creation: rejections *)

\* C1 as stated: whenever some line of the user's cart, whatever its product's
\* state, asks for more than the product's current stock, POST /orders is
\* rejected and leaves orders, order items, stock and carts unchanged.
C1_AnyLineShortOfStock ==
  [][\A u \in Users :
       (CreateOrderStep(u) /\ \E ci \in CartOf(u) : ShortOfStock(ci))
         => (res'.code = 400 /\ UNCHANGED db)]_vars

\* C1, amended: whenever some line of the user's cart that references an
\* active product asks for more than that product's current stock, POST
\* /orders answers 400 "Insufficient stock" and leaves orders, order items,
\* every product's stock and every cart unchanged, even when other lines have
\* enough stock.
C1_ActiveLineShortOfStock ==
  [][\A u \in Users :
       (CreateOrderStep(u) /\ \E ci \in ActiveLines(u) : ShortOfStock(ci))
         => (/\ res' = Response("createOrder", u, 400, "Insufficient stock", 0)
             /\ UNCHANGED db)]_vars

\* An order creation was refused for stock while another line of the same
\* cart had enough.
C1_Witness ==
  /\ res.op = "createOrder"
  /\ res.msg = "Insufficient stock"
  /\ \E a, b \in ActiveLines(res.user) : ShortOfStock(a) /\ ~ShortOfStock(b)

\* C2: POST /orders by a user who has no cart row answers 400 "Cart is empty"
\* and leaves orders, order items, products and all carts unchanged.
C2_EmptyCartRejected ==
  [][\A u \in Users :
       (CreateOrderStep(u) /\ CartOf(u) = {})
         => (/\ res' = Response("createOrder", u, 400, "Cart is empty", 0)
             /\ UNCHANGED db)]_vars

\* An order creation was refused for an empty cart while another user's cart
\* held items.
C2_Witness ==
  /\ res = Response("createOrder", res.user, 400, "Cart is empty", 0)
  /\ CartOf(res.user) = {}
  /\ \E ci \in cart_items : ci.user_id # res.user

-----------------------------------------------------------------------------
(* Order creation: the order that is written *)

\* The order a step inserts.
Inserted == orders' \ orders

\* C3 as stated: the order created from a cart whose lines all have enough
\* stock has subtotal = sum of price x quantity over all the cart's lines,
\* tax = 8% of it, shipping 0 above 100 and 10 otherwise, total = their sum.
C3_TotalsOverEveryLine ==
  [][\A u \in Users :
       (OrderCreatedStep(u) /\ \A ci \in CartOf(u) : ~ShortOfStock(ci))
         => \E o \in Inserted :
              /\ Inserted = {o}
              /\ o.subtotal = CartValue(CartOf(u))
              /\ TotalsFromSubtotal(o)]_vars

\* C3, amended: the order created from a cart has subtotal = sum of price x
\* quantity over the cart lines that reference an active product, tax = 8%
\* of the subtotal, shipping 0 when the subtotal is strictly above 100 and 10
\* otherwise (also at exactly 100), and total = subtotal + tax + shipping.
C3_TotalsOverActiveLines ==
  [][\A u \in Users :
       OrderCreatedStep(u)
         => \E o \in Inserted :
              /\ Inserted = {o}
              /\ o.id = res'.id
              /\ o.user_id = u
              /\ o.subtotal = CartValue(ActiveLines(u))
              /\ TotalsFromSubtotal(o)]_vars

\* An order was created with a subtotal of exactly 100 and pays shipping.
C3_Witness ==
  /\ res.op = "createOrder"
  /\ res.code = 201
  /\ \E o \in orders :
       /\ o.id = res.id
       /\ o.subtotal = Dollars(100)
       /\ o.shipping_amount = Dollars(10)
       /\ o.total_amount = Dollars(118)

\* The user's cart is one line of `quantity` units of an active product with
\* this price and stock.
OneLineCart(u, price, quantity, stock) ==
  \E ci \in CartOf(u) :
    /\ CartOf(u) = {ci}
    /\ ci.quantity = quantity
    /\ products[ci.product_id] =
         [price |-> price, stock_quantity |-> stock, is_active |-> 1]

\* C4: POST /orders with an unused order number, from a cart of one line
\* (price 10.00, quantity 3) of an active product with stock 5, creates an
\* order with subtotal 30.00, shipping 10.00, tax 2.40 and total 42.40; from a
\* cart of one line (price 60.00, quantity 2) of an active product with stock
\* 2, it creates an order with subtotal 120.00, shipping 0.00, tax 9.60 and
\* total 129.60, and leaves that product's stock at 0.
C4_Scenarios ==
  [][\A u \in Users :
       (/\ CreateOrderStep(u)
        /\ OneLineCart(u, Cents(1000), 3, 5) \/ OneLineCart(u, Cents(6000), 2, 2)
        /\ \E body \in OrderBodies, n \in OrderNumbers :
             /\ \A o \in orders : o.order_number # n
             /\ CreateOrder(u, body, n))
         => /\ res'.code = 201
            /\ OneLineCart(u, Cents(1000), 3, 5)
                => \E o \in Inserted :
                     /\ o.id = res'.id
                     /\ Money(o) =
                          <<Cents(3000), Cents(240), Cents(1000), Cents(4240)>>
            /\ OneLineCart(u, Cents(6000), 2, 2)
                => /\ \E o \in Inserted :
                        /\ o.id = res'.id
                        /\ Money(o) = <<Cents(12000), Cents(960), 0, Cents(12960)>>
                   /\ \A ci \in CartOf(u) :
                        products'[ci.product_id].stock_quantity = 0]_vars

\* Both scenarios have run: an order of 3 units at 10.00 and an order of 2
\* units at 60.00 exist, and the second product is out of stock.
C4_Witness ==
  /\ res.op = "createOrder"
  /\ res.code = 201
  /\ \E o \in orders, oi \in order_items :
       /\ ItemsOf(order_items, o.id) = {oi}
       /\ oi.quantity = 3
       /\ oi.unit_price = Cents(1000)
       /\ Money(o) = <<Cents(3000), Cents(240), Cents(1000), Cents(4240)>>
  /\ \E o \in orders, oi \in order_items :
       /\ ItemsOf(order_items, o.id) = {oi}
       /\ oi.quantity = 2
       /\ oi.unit_price = Cents(6000)
       /\ Money(o) = <<Cents(12000), Cents(960), 0, Cents(12960)>>
       /\ products[oi.product_id].stock_quantity = 0

\* C5: after a successful POST /orders the ordering user has no cart row at
\* all, and the cart rows of every other user are what they were.
C5_CartEmptiedOthersKept ==
  [][\A u \in Users :
       OrderCreatedStep(u)
         => /\ CartIn(cart_items', u) = {}
            /\ \A v \in Users \ {u} : CartIn(cart_items', v) = CartOf(v)]_vars

\* An order was created, its user's cart is empty and another user's is not.
C5_Witness ==
  /\ res.op = "createOrder"
  /\ res.code = 201
  /\ CartOf(res.user) = {}
  /\ \E ci \in cart_items : ci.user_id # res.user

\* What a successful order creation writes for the cart rows `lines`: one
\* order item per row, and each row's quantity off its product's stock.
WritesFor(u, lines) ==
  /\ {ItemContent(oi) : oi \in order_items' \ order_items} =
       {Snapshot(ci) : ci \in lines}
  /\ Cardinality(order_items' \ order_items) = Cardinality(lines)
  /\ \A oi \in order_items' \ order_items : oi.order_id = res'.id
  /\ order_items \subseteq order_items'
  /\ \A p \in Products :
       products'[p] =
         [products[p] EXCEPT !.stock_quantity = @ - QuantityIn(lines, p)]

\* C6 as stated: a successful order creation writes one order item per cart
\* line and takes each line's quantity off its product's stock.
C6_ItemPerCartLine ==
  [][\A u \in Users : OrderCreatedStep(u) => WritesFor(u, CartOf(u))]_vars

\* C6, amended: a successful order creation writes one order item per cart
\* line that references an active product, with that line's product and
\* quantity, the product's current price as unit price and unit price x
\* quantity as line total; it takes exactly the line's quantity off the
\* stock of each such product and leaves every other product (also the
\* inactive ones in the cart) as it was.
C6_ItemPerActiveLine ==
  [][\A u \in Users : OrderCreatedStep(u) => WritesFor(u, ActiveLines(u))]_vars

\* An order of two lines was created.
C6_Witness ==
  /\ res.op = "createOrder"
  /\ res.code = 201
  /\ Cardinality(ItemsOf(order_items, res.id)) = 2
  /\ \E oi \in ItemsOf(order_items, res.id) : oi.quantity >= 2

\* C7: no request, of any kind, changes the order items or the subtotal,
\* tax, shipping and total of an order that exists.
C7_OrderFrozen ==
  [][\A o \in orders :
       /\ \E o2 \in orders' : o2.id = o.id /\ Money(o2) = Money(o)
       /\ ItemsOf(order_items', o.id) = ItemsOf(order_items, o.id)]_vars

\* The price of an ordered product was changed after the order was created.
C7_Witness ==
  /\ res.op = "updateProduct"
  /\ \E oi \in order_items :
       /\ oi.unit_price # products[oi.product_id].price
       /\ oi.total_price = oi.unit_price * oi.quantity
       /\ oi.quantity > 0

\* C8 as stated: when a line of the user's cart references a product that is
\* not active, POST /orders is rejected and changes nothing.
C8_InactiveLineRejects ==
  [][\A u \in Users :
       (CreateOrderStep(u) /\ InactiveLines(u) # {})
         => (res'.code # 201 /\ UNCHANGED db)]_vars

\* C8, amended: a cart line whose product is not active is left out of the
\* order.  With no line of an active product the request answers 400 "Cart
\* is empty" and changes nothing; otherwise the lines of active products
\* decide: a rejection changes nothing, and a created order holds no item of
\* an inactive product, leaves the inactive products as they were, and
\* deletes the user's whole cart, the lines of inactive products with it.
C8_InactiveLineLeftOut ==
  [][\A u \in Users :
       (CreateOrderStep(u) /\ InactiveLines(u) # {})
         => /\ ActiveLines(u) = {}
                => /\ res' = Response("createOrder", u, 400, "Cart is empty", 0)
                   /\ UNCHANGED db
            /\ res'.code # 201 => UNCHANGED db
            /\ res'.code = 201
                => /\ \A oi \in order_items' \ order_items :
                        \E ci \in ActiveLines(u) : ci.product_id = oi.product_id
                   /\ \A ci \in InactiveLines(u) :
                        products'[ci.product_id] = products[ci.product_id]
                   /\ CartIn(cart_items', u) = {}]_vars

\* An order creation was refused as "Cart is empty" although the user's cart
\* holds a line, of a product that is not active.
C8_Witness ==
  /\ res = Response("createOrder", res.user, 400, "Cart is empty", 0)
  /\ InactiveLines(res.user) # {}

-----------------------------------------------------------------------------
(* Order creation on a database whose statements may fail *)

\* C9: every POST /orders either leaves orders, order items, stock and carts
\* as they were, or has written all of it: the order, one item per line, each
\* line's stock decrement, and the clearing of the cart; also when one of its
\* statements fails partway.
C9_AllOrNothing ==
  [][\A u \in Users :
       (res'.op = "createOrder" /\ res'.user = u)
         => \/ UNCHANGED db
            \/ /\ Cardinality(Inserted) = 1
               /\ \A o \in Inserted : o.id = res'.id
               /\ WritesFor(u, ActiveLines(u))
               /\ CartIn(cart_items', u) = {}]_vars

-----------------------------------------------------------------------------
(* Payment confirmation *)

\* The part of an order a payment confirmation may write.
PaymentState(o) == <<o.payment_status, o.status, o.payment_method, o.payment_id>>

\* C10: POST /payments/process that names an order whose payment status is
\* not 'pending' is answered 404 "Order not found or already processed" and
\* changes nothing; one answered without naming an order (a required field
\* is missing) changes nothing; and no POST /payments/process changes the
\* payment status, status, payment method or payment id of an order whose
\* payment status is 'completed' or 'failed'.
C10_NonPendingRejected ==
  [][res'.op = "processPayment"
       => /\ \A o \in orders :
               (res'.id = o.id /\ o.payment_status # "pending")
                 => /\ res' = Response("processPayment", res'.user, 404,
                                        "Order not found or already processed", o.id)
                    /\ UNCHANGED db
          /\ res'.id = 0 => (res'.code = 400 /\ UNCHANGED db)
          /\ \A o \in orders :
               o.payment_status # "pending"
                 => \E o2 \in orders' :
                      o2.id = o.id /\ PaymentState(o2) = PaymentState(o)]_vars

\* A payment confirmation by the order's owner was refused because the
\* order's payment was already completed or had already failed.
C10_Witness ==
  /\ res.op = "processPayment"
  /\ res.code = 404
  /\ \E o \in orders :
       /\ o.id = res.id
       /\ o.user_id = res.user
       /\ o.payment_status \in {"completed", "failed"}

\* The order a POST /payments/process step names in its response; such a
\* response answers a request that carried both an order id and a payment
\* method.
Named(o) == res'.op = "processPayment" /\ res'.id = o.id

\* The row of order o after the step.
After(o) == CHOOSE o2 \in orders' : o2.id = o.id

\* The cart row with the id of ci after the step.
CartRowAfter(ci) == CHOOSE c2 \in cart_items' : c2.id = ci.id

\* C11: POST /payments/process by the owner of an order whose payment status
\* is 'pending' leaves that order's payment status 'completed' (answering
\* 200) or 'failed' (answering 400), whichever way the draw falls: never
\* 'pending', never anything else.
C11_OutcomeRecorded ==
  [][\A o \in orders :
       (Named(o) /\ res'.user = o.user_id /\ o.payment_status = "pending")
         => /\ Cardinality({o2 \in orders' : o2.id = o.id}) = 1
            /\ After(o).payment_status \in {"completed", "failed"}
            /\ res'.code \in {200, 400}
            /\ (After(o).payment_status = "completed") = (res'.code = 200)]_vars

\* A payment confirmation has just failed and the order records it.
C11_Witness ==
  /\ res.op = "processPayment"
  /\ res.msg = "Payment processing failed"
  /\ \E o \in orders :
       o.id = res.id /\ o.user_id = res.user /\ o.payment_status = "failed"

\* C12: a POST /payments/process that resolves to success leaves the order
\* with status 'confirmed', payment status 'completed', the request's payment
\* method and a payment id; one that resolves to failure changes the payment
\* status to 'failed' and nothing else of the order; in both cases every
\* other order, and every other table, is as before.
C12_SuccessAndFailureWrites ==
  [][\A o \in orders :
       (Named(o) /\ res'.user = o.user_id /\ o.payment_status = "pending")
         => /\ res'.code = 200
                => /\ After(o).status = "confirmed"
                   /\ After(o).payment_status = "completed"
                   /\ After(o).payment_method = "paypal"
                   /\ After(o).payment_id \in PaymentIds
                   /\ After(o) = [o EXCEPT !.status = "confirmed",
                                           !.payment_status = "completed",
                                           !.payment_method = "paypal",
                                           !.payment_id = After(o).payment_id]
            /\ res'.code # 200
                => After(o) = [o EXCEPT !.payment_status = "failed"]
            /\ orders' \ {After(o)} = orders \ {o}
            /\ UNCHANGED <<products, cart_items, nextCartId, order_items>>]_vars

\* A payment by another method than the order was created with has succeeded.
C12_Witness ==
  /\ res.op = "processPayment"
  /\ res.code = 200
  /\ \E o \in orders :
       /\ o.id = res.id
       /\ PaymentState(o) = <<"completed", "confirmed", "paypal", "pay_a">>

\* C13: POST /payments/process naming an order of another user is answered
\* 404 and changes nothing, also when that order's payment is pending.
C13_ForeignOrderRejected ==
  [][\A o \in orders :
       (Named(o) /\ res'.user # o.user_id)
         => /\ res' = Response("processPayment", res'.user, 404,
                                "Order not found or already processed", o.id)
            /\ UNCHANGED db]_vars

\* A user's payment confirmation for another user's pending order was refused.
C13_Witness ==
  /\ res.op = "processPayment"
  /\ res.code = 404
  /\ \E o \in orders :
       /\ o.id = res.id
       /\ o.user_id # res.user
       /\ res.user \in Users
       /\ o.payment_status = "pending"

-----------------------------------------------------------------------------
(* Order status and payment state *)

\* C14: every order's status is one of pending, confirmed, processing,
\* shipped, delivered, cancelled in every reachable state; a PUT
\* /orders/:id/status that is answered 400 changes nothing, and one whose
\* status is not one of the six is answered 400.
C14_StatusOneOfSix ==
  /\ [](\A o \in orders :
          o.status \in {"pending", "confirmed", "processing", "shipped",
                        "delivered", "cancelled"})
  /\ [][(res'.op = "updateOrderStatus" /\ res'.code = 400) => UNCHANGED db]_vars
  /\ [][res'.op = "updateOrderStatus"
          => \A id \in OrderIds, body \in StatusBodies :
               (body.status = "refunded" /\ UpdateOrderStatus(id, body))
                 => res' = Response("updateOrderStatus", Admin, 400,
                                     "Invalid status", 0)]_vars

\* A status update was refused as invalid while an order existed.
C14_Witness ==
  /\ res = Response("updateOrderStatus", Admin, 400, "Invalid status", 0)
  /\ orders # {}

\* C15: POST /orders inserts its order with status 'pending', payment status
\* 'pending' and no payment id; and an order whose payment status is
\* 'pending' keeps that payment status, and no payment id, through every
\* step that is not a POST /payments/process of its owner naming it.
C15_PendingUntilPayment ==
  [][/\ \A o \in orders' :
          (\A old \in orders : old.id # o.id)
            => /\ o.status = "pending"
               /\ o.payment_status = "pending"
               /\ o.payment_id = NULL
     /\ \A o \in orders :
          o.payment_status = "pending"
            => \/ /\ After(o).payment_status = "pending"
                  /\ After(o).payment_id = NULL
                  /\ o.payment_id = NULL
               \/ Named(o) /\ res'.user = o.user_id]_vars

\* An order was shipped by the administrator while its payment is pending.
C15_Witness ==
  /\ res.op = "updateOrderStatus"
  /\ res.code = 200
  /\ \E o \in orders :
       /\ o.status = "shipped"
       /\ o.payment_status = "pending"
       /\ o.payment_id = NULL

-----------------------------------------------------------------------------
(* Uniqueness *)

\* C18: in every reachable state a user has at most one cart item per
\* product; a successful POST /cart/add either raises the quantity of the
\* user's existing item of that product, or inserts one item of a product the
\* user had no item of.
C18_OneItemPerUserProduct ==
  /\ [](\A a, b \in cart_items :
          (a.user_id = b.user_id /\ a.product_id = b.product_id) => a = b)
  /\ [][(res'.op = "addToCart" /\ res'.code = 200)
          => \/ \E ci \in CartOf(res'.user) :
                  /\ cart_items' \ {CartRowAfter(ci)} = cart_items \ {ci}
                  /\ CartRowAfter(ci) = [ci EXCEPT !.quantity = CartRowAfter(ci).quantity]
                  /\ CartRowAfter(ci).quantity >= ci.quantity
             \/ \E row \in cart_items' \ cart_items :
                  /\ cart_items' = cart_items \cup {row}
                  /\ row.user_id = res'.user
                  /\ \A ci \in CartOf(res'.user) :
                       ci.product_id # row.product_id /\ ci.id # row.id]_vars

\* A product was added twice to a cart, which holds one item of it.
C18_Witness ==
  /\ res.op = "addToCart"
  /\ res.code = 200
  /\ \E ci \in CartOf(res.user) :
       /\ ci.quantity = 5
       /\ \A other \in CartOf(res.user) :
            other.product_id = ci.product_id => other = ci

\* C19: no two orders carry the same order number in any reachable state; a
\* POST /orders answered 500 has changed nothing, and a POST /orders whose
\* order number an order already carries creates no order and changes
\* nothing.
C19_OrderNumbersUnique ==
  /\ [](\A a, b \in orders : a.order_number = b.order_number => a = b)
  /\ [][\A u \in Users :
          (CreateOrderStep(u) /\ res'.code = 500) => UNCHANGED db]_vars
  /\ [][\A u \in Users :
          CreateOrderStep(u)
            => \A body \in OrderBodies, n \in OrderNumbers :
                 ((\E o \in orders : o.order_number = n) /\ CreateOrder(u, body, n))
                   => (res'.code # 201 /\ UNCHANGED db)]_vars

\* An order creation from a cart that could be ordered was refused because
\* its order number was taken.
C19_Witness ==
  /\ res.op = "createOrder"
  /\ res.code = 500
  /\ orders # {}
  /\ ActiveLines(res.user) # {}
  /\ \A ci \in ActiveLines(res.user) : ~ShortOfStock(ci)

-----------------------------------------------------------------------------
(* Interleaved handlers *)

\* Handler h runs its writes in this step.
Writes(h, kind) == inflight[h].kind = kind /\ inflight'[h] = Idle

\* C16: when the handlers of two POST /orders interleave between the stock
\* check and the writes, nothing holds back the second: every handler that
\* passed its check writes its order unless its order number is taken, and
\* takes the quantities it read off the stock whatever the stock has become in
\* between; the stock can so fall below zero.
C16_CheckedOrdersAllCommit ==
  [][\A h \in Handlers :
       Writes(h, "createOrder")
         => LET r == inflight[h]
            IN /\ res'.code # 201
                    => /\ \E o \in orders : o.order_number = r.orderNumber
                       /\ UNCHANGED db
               /\ res'.code = 201
                    => /\ \E o \in orders' :
                            /\ o.id = res'.id
                            /\ o.user_id = r.user
                            /\ \A old \in orders : old.id # o.id
                       /\ \A p \in Products :
                            products'[p].stock_quantity =
                              products[p].stock_quantity - QuantityIn(r.cartItems, p)]_vars

\* Two orders were written whose handlers both passed the stock check, and
\* the stock of a product is below zero.
C16_Witness ==
  /\ \A h \in Handlers : inflight[h] = Idle
  /\ Cardinality(orders) = 2
  /\ \E p \in Products :
       /\ products[p].stock_quantity < 0
       /\ \E a, b \in order_items :
            a.order_id # b.order_id /\ a.product_id = p /\ b.product_id = p

\* C17: when the handlers of two POST /payments/process for one order
\* interleave between the lookup and the UPDATE, every handler that found the
\* order pending records its outcome whatever the order's payment status has
\* become in between: the later write overwrites the earlier one, and an
\* order can end 'failed' with status 'confirmed' and a payment id.
C17_FoundPendingAllRecord ==
  [][\A h \in Handlers :
       Writes(h, "processPayment")
         => \A o \in orders :
              o.id = inflight[h].body.orderId
                => /\ res'.code = 200
                       => /\ After(o).payment_status = "completed"
                          /\ After(o).status = "confirmed"
                   /\ res'.code # 200
                       => After(o) = [o EXCEPT !.payment_status = "failed"]]_vars

\* An order whose payment was completed by one handler was then marked as
\* failed by another.
C17_Witness ==
  /\ \A h \in Handlers : inflight[h] = Idle
  /\ res.msg = "Payment processing failed"
  /\ \E o \in orders :
       /\ o.id = res.id
       /\ PaymentState(o) = <<"failed", "confirmed", "paypal", "pay_a">>

\* The requests and the navigation of the running handlePlaceOrder so far.
Log == client.log
\* The i-th thing the running handlePlaceOrder did was req.
Nth(i, req) == i <= Len(Log) /\ Log[i].req = req

\* C20: the steps of the checkout page are strictly ordered.  A payment
\* request is the second step, directly after an order creation answered with
\* 201, and carries the order id that response returned; after a failed order
\* creation nothing more is sent.  The cart is cleared and the page navigates
\* to that order only after a payment response reporting success; after a
\* payment response reporting failure the page does neither.
C20_CheckoutStepsOrdered ==
  /\ Len(Log) > 0 => Log[1].req = "createOrder"
  /\ \A i \in 1..Len(Log) :
       /\ Log[i].req = "createOrder"
            => /\ i = 1
               /\ Log[i].code # 201 => Len(Log) = 1
       /\ Log[i].req = "processPayment"
            => /\ i = 2
               /\ Log[1].code = 201
               /\ Log[i].id = Log[1].id
               /\ \E o \in orders : o.id = Log[i].id /\ o.user_id = client.user
               /\ Log[i].code # 200 => Len(Log) = 2
       /\ Log[i].req = "clearCart"
            => /\ i = 3
               /\ Nth(2, "processPayment")
               /\ Log[2].code = 200
       /\ Log[i].req = "navigate"
            => /\ i = 4
               /\ Nth(3, "clearCart")
               /\ Log[i].id = Log[1].id
               /\ client.navigated = Log[1].id
  /\ client.pc = "processPayment" => Nth(1, "createOrder") /\ Len(Log) = 1
  /\ client.pc = "clearCart" => Nth(2, "processPayment") /\ Len(Log) = 2
  /\ client.pc = "navigate" => Nth(3, "clearCart") /\ Len(Log) = 3

\* A checkout went through: order created, payment reported successful for
\* the returned id, cart cleared, page on the order's detail.
C20_Witness ==
  /\ Len(Log) = 4
  /\ Nth(2, "processPayment") /\ Log[2].code = 200 /\ Log[2].id = Log[1].id
  /\ Nth(4, "navigate")
  /\ client.navigated = Log[1].id
  /\ CartOf(client.user) = {}

\* The quantity a POST /cart/add body asks for (1 when it names none).
Added(body) == IF Has(body, "quantity") THEN body.quantity ELSE 1

\* C21: a POST /cart/add answered with success named an existing, active
\* product, and the quantity the user's cart held of it plus the quantity
\* added is within the product's stock; the cart then holds exactly that sum
\* of the product and its other items are as before.  Any other answer
\* leaves the cart table unchanged.
C21_AddWithinStock ==
  [][\A u \in Users, body \in AddBodies :
       (res'.op = "addToCart" /\ res'.user = u /\ AddToCart(u, body))
         => /\ res'.code = 200
                 => /\ Has(body, "productId")
                    /\ body.productId \in Products
                    /\ products[body.productId].is_active = 1
                    /\ QuantityIn(CartOf(u), body.productId) + Added(body)
                         <= products[body.productId].stock_quantity
                    /\ QuantityIn(CartIn(cart_items', u), body.productId)
                         = QuantityIn(CartOf(u), body.productId) + Added(body)
                    /\ {ci \in cart_items' : ci.user_id # u \/ ci.product_id # body.productId}
                         = {ci \in cart_items : ci.user_id # u \/ ci.product_id # body.productId}
            /\ res'.code # 200 => cart_items' = cart_items]_vars

\* An add was refused because the cart already holds so much of the product
\* that the sum would exceed the stock, which the added quantity alone does
\* not.
C21_Witness ==
  /\ res.op = "addToCart"
  /\ res.msg = "Insufficient stock"
  /\ \E ci \in CartOf(res.user) :
       /\ ci.quantity = 3
       /\ products[ci.product_id].stock_quantity = 5

\* C22: PUT /cart/update/:id is refused, the cart table staying as it is,
\* when the body has no quantity or one below 1, when no cart item of the
\* requester has that id, or when the quantity exceeds the stock of the
\* item's product; otherwise it succeeds, the item has the requested quantity
\* and every other cart item is as before.
C22_UpdateCheckedAndExact ==
  [][\A u \in Users, id \in CartItemIds, body \in UpdateBodies :
       (res'.op = "updateCartItem" /\ res'.user = u /\ UpdateCartItem(u, id, body))
         => LET own == {ci \in cart_items : ci.id = id /\ ci.user_id = u}
                refused ==
                  \/ ~Has(body, "quantity")
                  \/ body.quantity < 1
                  \/ own = {}
                  \/ \E ci \in own :
                       body.quantity > products[ci.product_id].stock_quantity
            IN IF refused
                 THEN res'.code # 200 /\ cart_items' = cart_items
                 ELSE /\ res'.code = 200
                      /\ \A ci \in own : CartRowAfter(ci).quantity = body.quantity
                      /\ \A ci \in cart_items :
                           CartRowAfter(ci) =
                             IF ci \in own THEN [ci EXCEPT !.quantity = body.quantity]
                                           ELSE ci
                      /\ Cardinality(cart_items') = Cardinality(cart_items)]_vars

\* A quantity update went through while another user holds a cart item.
C22_Witness ==
  /\ res.op = "updateCartItem"
  /\ res.code = 200
  /\ \E ci \in CartOf(res.user) : ci.quantity = 3
  /\ \E other \in cart_items : other.user_id # res.user

\* C23: POST /payments/process, whatever its answer, leaves the products
\* (their stock included), the cart items and the order items as they are,
\* creates and deletes no order, and leaves the subtotal, tax, shipping and
\* total of every order as they are: after a failed payment the stock that
\* the order took stays taken and the cart stays empty.
C23_PaymentFrame ==
  [][res'.op = "processPayment"
       => /\ products' = products
          /\ cart_items' = cart_items
          /\ nextCartId' = nextCartId
          /\ order_items' = order_items
          /\ {o.id : o \in orders'} = {o.id : o \in orders}
          /\ Cardinality(orders') = Cardinality(orders)
          /\ \A o \in orders : Money(After(o)) = Money(o)]_vars

\* The payment of an order failed; the stock its items took is still taken
\* and the cart of its owner is empty.
C23_Witness ==
  /\ res.op = "processPayment"
  /\ res.msg = "Payment processing failed"
  /\ CartOf(res.user) = {}
  /\ \E o \in orders :
       /\ o.id = res.id
       /\ o.payment_status = "failed"
       /\ o.total_amount > 0
       /\ \E oi \in ItemsOf(order_items, o.id) :
            /\ oi.product_id = 1
            /\ oi.quantity = 3
            /\ products[1].stock_quantity = 2

\* C24: PUT /orders/:id/status with one of the six statuses, naming an
\* existing order, succeeds whatever the order's status is and leaves the
\* order with the requested status; its shipped timestamp is written when the
\* status is 'shipped' and is otherwise as before, its delivered timestamp is
\* written when the status is 'delivered' and is otherwise as before; its
\* payment status, payment method, payment id and amounts, every other order
\* and all order items are as before.  Naming no existing order it answers
\* 404 and changes no order.
C24_StatusUpdateFrame ==
  [][\A id \in OrderIds, body \in StatusBodies :
       (res'.op = "updateOrderStatus" /\ UpdateOrderStatus(id, body)
          /\ body.status \in {"pending", "confirmed", "processing",
                              "shipped", "delivered", "cancelled"})
         => /\ order_items' = order_items
            /\ products' = products
            /\ cart_items' = cart_items
            /\ IF \E o \in orders : o.id = id
                 THEN /\ res'.code = 200
                      /\ Cardinality(orders') = Cardinality(orders)
                      /\ \A o \in orders :
                           IF o.id # id THEN After(o) = o
                           ELSE /\ After(o).status = body.status
                                /\ After(o).shipped_at =
                                     IF body.status = "shipped" THEN "set"
                                                                ELSE o.shipped_at
                                /\ After(o).delivered_at =
                                     IF body.status = "delivered" THEN "set"
                                                                  ELSE o.delivered_at
                                /\ [After(o) EXCEPT !.status = o.status,
                                                    !.shipped_at = o.shipped_at,
                                                    !.delivered_at = o.delivered_at] = o
                 ELSE res'.code = 404 /\ orders' = orders]_vars

\* An order that was never paid was shipped and then delivered: it carries
\* both timestamps and its payment is still pending.
C24_Witness ==
  /\ res.op = "updateOrderStatus"
  /\ res.code = 200
  /\ \E o \in orders :
       /\ o.status = "delivered"
       /\ o.shipped_at = "set"
       /\ o.delivered_at = "set"
       /\ o.payment_status = "pending"
       /\ o.payment_id = NULL

\* The quantity of product p over a set of order items.
RECURSIVE Ordered(_, _)
Ordered(items, p) ==
  IF items = {} THEN 0
  ELSE LET oi == CHOOSE x \in items : TRUE
       IN (IF oi.product_id = p THEN oi.quantity ELSE 0) + Ordered(items \ {oi}, p)

\* C25: while handlers run to completion and no admin changes a product, no
\* product's stock is negative in any reachable state, whatever cart, order
\* and payment requests the users send.
C25_StockNeverNegative ==
  \A p \in Products : products[p].stock_quantity >= 0

\* Orders of two users have taken the whole stock of a product.
C25_Witness ==
  /\ \E p \in Products :
       /\ products[p].stock_quantity = 0
       /\ Cardinality({oi.order_id : oi \in {x \in order_items : x.product_id = p}}) = 2
  /\ Cardinality({o.user_id : o \in orders}) = 2

\* C27: while no admin changes a product, in every reachable state the stock
\* of each product plus the quantities of all order items of that product is
\* the stock the product started with, whatever payments and status updates
\* have happened.
C27_StockConserved ==
  \A p \in Products :
    products[p].stock_quantity + Ordered(order_items, p)
      = InitialProducts[p].stock_quantity

\* An order took stock, its payment failed and its status was then changed.
C27_Witness ==
  \E o \in orders :
    /\ o.payment_status = "failed"
    /\ o.status = "shipped"
    /\ \E oi \in ItemsOf(order_items, o.id) :
         /\ oi.quantity = 3
         /\ products[oi.product_id].stock_quantity
              = InitialProducts[oi.product_id].stock_quantity - 3

\* C26: in every reachable state every cart item has a quantity of at least
\* 1, whatever quantities POST /cart/add and PUT /cart/update/:id were sent
\* (0 and negative ones included, adds merging into an existing item
\* included); so every order item has a quantity of at least 1 and every
\* order a subtotal of at least 0.
C26_QuantitiesPositive ==
  /\ \A ci \in cart_items : ci.quantity >= 1
  /\ \A oi \in order_items : oi.quantity >= 1
  /\ \A o \in orders : o.subtotal >= 0

\* C28: while handlers run to completion and no admin changes an order's
\* status, in every reachable state an order's status is 'confirmed' exactly
\* when its payment status is 'completed', it has a payment id exactly when
\* its payment status is 'completed', and an order whose payment status is
\* 'pending' or 'failed' has status 'pending'.
C28_StatusFollowsPayment ==
  \A o \in orders :
    /\ o.status = "confirmed" <=> o.payment_status = "completed"
    /\ o.payment_id # NULL <=> o.payment_status = "completed"
    /\ o.payment_status \in {"pending", "failed"} => o.status = "pending"

\* The payment of an order failed and a second attempt was turned away: the
\* order is still pending, without a payment id.
C28_Witness ==
  /\ res.op = "processPayment"
  /\ res.code = 404
  /\ \E o \in orders :
       /\ o.id = res.id
       /\ o.user_id = res.user
       /\ o.payment_status = "failed"
       /\ o.status = "pending"
       /\ o.payment_id = NULL

\* The running handlePlaceOrder sends a request or navigates in this step.
CheckoutStep == Len(client'.log) > Len(client.log)

\* C29: the checkout flow takes out of the user's cart only items that went
\* into the order it created: each cart item of the user that a step of the
\* flow removes is written as an item of the flow's order by that step.  An
\* item the user adds after the order was created, before the payment
\* response is handled, is so left in the cart by the rest of the flow.
C29_OnlyOrderedItemsRemoved ==
  [][CheckoutStep
       => \A ci \in CartOf(client.user) :
            ci \notin cart_items'
              => \E oi \in order_items' \ order_items :
                   /\ oi.order_id = client'.orderId
                   /\ oi.product_id = ci.product_id
                   /\ oi.quantity = ci.quantity]_vars

\* The addresses of user u.
AddressesOf(rows, u) == {a \in rows : a.user_id = u}

\* C30: after any sequence of POST /addresses, PUT /addresses/:id (changing
\* the type or not, with the default flag or without) and DELETE
\* /addresses/:id, each user has at most one default address of each type;
\* and a request of one user leaves the address rows of every other user,
\* their default flags included, as they are.
C30_OneDefaultPerType ==
  /\ [](\A a, b \in addresses :
          (a.user_id = b.user_id /\ a.type = b.type
             /\ a.is_default = 1 /\ b.is_default = 1) => a = b)
  /\ [][\A u \in Users :
          res'.user # u => AddressesOf(addresses', u) = AddressesOf(addresses, u)]_vars

\* A billing address was turned into the default shipping address while the
\* user had a default shipping address, which has lost the flag; another
\* user's default shipping address has kept it.
C30_Witness ==
  /\ res.op = "updateAddress"
  /\ res.code = 200
  /\ \E a, b, c \in addresses :
       /\ a.user_id = res.user /\ b.user_id = res.user /\ a.id < b.id
       /\ a.type = "shipping" /\ a.is_default = 0
       /\ b.type = "shipping" /\ b.is_default = 1
       /\ c.user_id # res.user /\ c.type = "shipping" /\ c.is_default = 1

=============================================================================
